---- MODULE Spec2Model ----
(***************************************************************************)
(* A model of qcc's Tensor base class (src/lib/tensor.py) and of the       *)
(* Bernstein-Vazirani example built on it (src/bernstein.py).              *)
(*                                                                         *)
(* Numbers.  An array is kept exactly: every element is a complex number   *)
(* <<re, im>> of integers over the array's common denominator den, so the  *)
(* element's value is (re + im*j) / den.  Floating-point rounding of       *)
(* complex64 is not modelled; the tolerances of numpy.allclose are.        *)
(*                                                                         *)
(* Shapes.  shape is numpy's shape, <<>>, <<m>> or <<m, n>>.  data is      *)
(* always indexed [row][column] over the shape padded on the left with     *)
(* ones, which is how numpy broadcasts and how numpy.kron aligns operands. *)
(***************************************************************************)
EXTENDS Integers, Sequences, FiniteSets, TLC

VARIABLES
  pc,      \* the step the current run has reached
  kind,    \* the function being run
  run,     \* the number of runs main has completed
  nbits,   \* the number of qubits
  c,       \* the secret
  draws,   \* the random draws make_c consumed for it
  u,       \* the oracle
  psi,     \* the state
  raised,  \* the exception that ended the run, "" when none
  built,   \* the gate-library operators make_u constructed
  tin,     \* the Tensor a method is called on
  top,     \* the method called, "none" before the call
  targ,    \* the argument of pow
  tout,    \* the outcome of the call
  heap,    \* the array buffers allocated, by buffer number
  objs,    \* the Tensor objects constructed, each with the buffer it views
  hlast,   \* the last operation on the Tensor objects
  hwrites  \* the number of element writes so far

runVars == <<pc, kind, run, nbits, c, draws, u, psi, raised, built>>

tensorVars == <<tin, top, targ, tout>>

heapVars == <<heap, objs, hlast, hwrites>>

vars == <<runVars, tensorVars, heapVars>>

\* the largest number of qubits of the model (main runs 8)
MaxBits == 3

\* the passes of main's loop, each a run_experiment and a run_oracle_experiment
Runs == 5

None == [type |-> "None"]

\* no run in progress
RunIdle ==
  /\ pc = "Idle"
  /\ kind = "none"
  /\ run = 0
  /\ nbits = 0
  /\ c = <<>>
  /\ draws = <<>>
  /\ u = None
  /\ psi = None
  /\ raised = ""
  /\ built = 0

\* no Tensor method under call
TensorIdle ==
  /\ tin = None
  /\ top = "none"
  /\ targ = 0
  /\ tout = None

\* no Tensor object constructed
HeapIdle ==
  /\ heap = <<>>
  /\ objs = <<>>
  /\ hlast = None
  /\ hwrites = 0

(***************************************************************************)
(* Complex numbers over the integers.                                      *)
(***************************************************************************)
CZero == <<0, 0>>

COne == <<1, 0>>

CImag == <<0, 1>>

CAdd(x, y) == <<x[1] + y[1], x[2] + y[2]>>

CSub(x, y) == <<x[1] - y[1], x[2] - y[2]>>

CMul(x, y) == <<x[1] * y[1] - x[2] * y[2], x[1] * y[2] + x[2] * y[1]>>

CScale(k, x) == <<k * x[1], k * x[2]>>

CConj(x) == <<x[1], -x[2]>>

\* |x|^2
CNorm2(x) == x[1] * x[1] + x[2] * x[2]

RECURSIVE IntPow(_, _)
IntPow(b, e) == IF e = 0 THEN 1 ELSE b * IntPow(b, e - 1)

RECURSIVE IsqrtFrom(_, _)
IsqrtFrom(n, r) == IF (r + 1) * (r + 1) > n THEN r ELSE IsqrtFrom(n, r + 1)

\* floor(sqrt(n))
Isqrt(n) == IsqrtFrom(n, 0)

RECURSIVE CSum(_, _, _)
\* sum of f[lo] .. f[hi]
CSum(f, lo, hi) == IF lo > hi THEN CZero ELSE CAdd(f[lo], CSum(f, lo + 1, hi))

(***************************************************************************)
(* numpy arrays.                                                           *)
(***************************************************************************)
Rows(shape) == IF Len(shape) = 2 THEN shape[1] ELSE 1

Cols(shape) == IF Len(shape) = 0 THEN 1 ELSE shape[Len(shape)]

Array(shape, data, den) == [shape |-> shape, data |-> data, den |-> den]

NRows(a) == Rows(a.shape)

NCols(a) == Cols(a.shape)

\* ndarray.transpose(): the axes reversed
Transpose(a) ==
  Array(IF Len(a.shape) = 2 THEN <<a.shape[2], a.shape[1]>> ELSE a.shape,
        IF Len(a.shape) = 2
          THEN [i \in 1..NCols(a) |-> [j \in 1..NRows(a) |-> a.data[j][i]]]
          ELSE a.data,
        a.den)

\* numpy.conj
Conj(a) ==
  Array(a.shape,
        [i \in 1..NRows(a) |-> [j \in 1..NCols(a) |-> CConj(a.data[i][j])]],
        a.den)

\* numpy.eye(m)
Eye(m) ==
  Array(<<m, m>>,
        [i \in 1..m |-> [j \in 1..m |-> IF i = j THEN COne ELSE CZero]],
        1)

\* numpy.matmul raises ValueError on operands whose inner dimensions differ
\* and on 0-d operands.
MatMulRaises(a, b) ==
  \/ Len(a.shape) = 0
  \/ Len(b.shape) = 0
  \/ a.shape[Len(a.shape)] # b.shape[1]

MatMulShape(a, b) ==
  IF Len(a.shape) = 2
    THEN IF Len(b.shape) = 2 THEN <<a.shape[1], b.shape[2]>> ELSE <<a.shape[1]>>
    ELSE IF Len(b.shape) = 2 THEN <<b.shape[2]>> ELSE <<>>

\* numpy.matmul(a, b), defined where MatMulRaises(a, b) is false.  A 1-D left
\* operand is a row, a 1-D right operand a column.
MatMul(a, b) ==
  LET k == a.shape[Len(a.shape)]
      shape == MatMulShape(a, b)
      left(i, l) == IF Len(a.shape) = 2 THEN a.data[i][l] ELSE a.data[1][l]
      right(l, j) == IF Len(b.shape) = 2 THEN b.data[l][j] ELSE b.data[1][l]
      rowsA == IF Len(a.shape) = 2 THEN a.shape[1] ELSE 1
      colsB == IF Len(b.shape) = 2 THEN b.shape[2] ELSE 1
      \* a 2-D @ 1-D product is a 1-D array: its elements lie along the row
      cell(i, j) == CSum([l \in 1..k |-> CMul(left(i, l), right(l, j))], 1, k)
  IN  Array(shape,
            IF Len(a.shape) = 2 /\ Len(b.shape) = 1
              THEN [i \in 1..1 |-> [j \in 1..rowsA |-> cell(j, 1)]]
              ELSE [i \in 1..rowsA |-> [j \in 1..colsB |-> cell(i, j)]],
            a.den * b.den)

\* numpy.trace of a 2-D array (numerator over a.den)
Trace(a) ==
  LET m == IF NRows(a) < NCols(a) THEN NRows(a) ELSE NCols(a)
  IN  CSum([i \in 1..m |-> a.data[i][i]], 1, m)

\* numpy.kron(a, b): the shapes are padded on the left with ones, the
\* result has the larger number of dimensions.
NpKron(a, b) ==
  LET ra == NRows(a)
      ca == NCols(a)
      rb == NRows(b)
      cb == NCols(b)
      nd == IF Len(a.shape) > Len(b.shape) THEN Len(a.shape) ELSE Len(b.shape)
      shape == IF nd = 2 THEN <<ra * rb, ca * cb>>
               ELSE IF nd = 1 THEN <<ca * cb>> ELSE <<>>
  IN  Array(shape,
            [i \in 1..(ra * rb) |-> [j \in 1..(ca * cb) |->
               CMul(a.data[((i - 1) \div rb) + 1][((j - 1) \div cb) + 1],
                    b.data[((i - 1) % rb) + 1][((j - 1) % cb) + 1])]],
            a.den * b.den)

\* numpy broadcasting of two shapes (at most 2-D each)
Broadcastable(sa, sb) ==
  /\ (Rows(sa) = Rows(sb) \/ Rows(sa) = 1 \/ Rows(sb) = 1)
  /\ (Cols(sa) = Cols(sb) \/ Cols(sa) = 1 \/ Cols(sb) = 1)

Max(x, y) == IF x > y THEN x ELSE y

\* element [i][j] of a, broadcast
BroadcastAt(a, i, j) ==
  a.data[IF NRows(a) = 1 THEN 1 ELSE i][IF NCols(a) = 1 THEN 1 ELSE j]

\* numpy.allclose's default relative tolerance, 1e-5, as 1 / RtolInv
RtolInv == 100000

\* the absolute tolerance 1e-6 of is_close and is_density, as 1 / AtolInv
AtolInv == 1000000

\* |x/dx - y/dy| <= atol + rtol * |y/dy|, that is, with d = x*dy - y*dx,
\*   AtolInv * |d| <= dx*dy + (AtolInv / RtolInv) * dx * |y|.
\* The moduli are square roots; they are bracketed by integer square roots,
\* which decides the comparison exactly whenever
\* dx*dy + (AtolInv / RtolInv) * dx * (|y| + 1) < AtolInv, as it is for every
\* array of this model: two elements are then close exactly when d = 0.
CloseElement(x, dx, y, dy) ==
  LET d == CSub(CScale(dy, x), CScale(dx, y))
  IN  \/ d = CZero
      \/ AtolInv * Isqrt(CNorm2(d))
           <= dx * dy + (AtolInv \div RtolInv) * dx * (Isqrt(CNorm2(y)) + 1)

\* numpy.allclose(a, b, atol=1e-6), defined where the shapes broadcast
AllClose(a, b) ==
  \A i \in 1..Max(NRows(a), NRows(b)) : \A j \in 1..Max(NCols(a), NCols(b)) :
    CloseElement(BroadcastAt(a, i, j), a.den, BroadcastAt(b, i, j), b.den)

(***************************************************************************)
(* Python values and outcomes.  A call either returns a value or raises.   *)
(***************************************************************************)
Returns(v) == [raised |-> "", ret |-> v]

Raises(e) == [raised |-> e, ret |-> FALSE]

PyFloat(x) == [type |-> "float", value |-> x]

PyTensor(a) == [type |-> "Tensor", value |-> a]

(***************************************************************************)
(* class Tensor, src/lib/tensor.py                                         *)
(***************************************************************************)
\* Tensor.is_close: np.allclose(self, arg, atol=1e-6)
is_close(self, arg) ==
  IF Broadcastable(self.shape, arg.shape)
    THEN Returns(AllClose(self, arg))
    ELSE Raises("ValueError")

\* Tensor.is_hermitian
is_hermitian(self) ==
  IF Len(self.shape) # 2 THEN FALSE
  ELSE IF self.shape[1] # self.shape[2] THEN FALSE
  ELSE is_close(self, Conj(Transpose(self))).ret

\* Tensor.is_unitary
is_unitary(self) ==
  IF MatMulRaises(Conj(Transpose(self)), self) THEN Raises("ValueError")
  ELSE is_close(MatMul(Conj(Transpose(self)), self), Eye(self.shape[1]))

\* np.trace(self) - 1.0 > 1e-6.  numpy orders complex numbers by real part,
\* then by imaginary part.
TraceExceedsOne(self) ==
  LET tr == Trace(self)
      excess == AtolInv * (tr[1] - self.den)
  IN  excess > self.den \/ (excess = self.den /\ tr[2] > 0)

\* Tensor.is_density
is_density(self) ==
  IF ~is_hermitian(self) THEN FALSE
  ELSE IF TraceExceedsOne(self) THEN FALSE
  ELSE TRUE

\* Tensor.kron: self.__class__(np.kron(self, arg))
kron(self, arg) == NpKron(self, arg)

RECURSIVE PowLoop(_, _, _)
\* the loop of Tensor.pow: t = np.kron(t, self), `left` more times
PowLoop(t, self, left) ==
  IF left <= 0 THEN t ELSE PowLoop(NpKron(t, self), self, left - 1)

\* Tensor.pow with its loop run n times, range(n) for range(n - 1)
pow_n_passes(self, n) ==
  IF n = 0 THEN PyFloat(1) ELSE PyTensor(PowLoop(self, self, n))

\* Tensor.pow
pow(self, n) ==
  IF n = 0 THEN PyFloat(1) ELSE PyTensor(PowLoop(self, self, n - 1))

\* Tensor.nbits: int(math.log2(self.shape[0]))
RECURSIVE Log2(_)
Log2(m) == IF m <= 1 THEN 0 ELSE 1 + Log2(m \div 2)

nbits_of(self) == Log2(self.shape[1])

(***************************************************************************)
(* Bit tuples.  A Python tuple of bits is a sequence over {0, 1}; Python   *)
(* index idx is position idx + 1.  Qubit 0 is the most significant bit of  *)
(* a basis index.                                                          *)
(***************************************************************************)
Bits == {0, 1}

\* helper.bitprod(n): every bit tuple of length n
bitprod(n) == [1..n -> Bits]

RECURSIVE BitsValue(_)
BitsValue(bits) ==
  IF Len(bits) = 0 THEN 0
  ELSE 2 * BitsValue(SubSeq(bits, 1, Len(bits) - 1)) + bits[Len(bits)]

\* the position, from 1, of basis state |bits> in a state vector
BasisIndex(bits) == BitsValue(bits) + 1

\* the bit tuple of length n whose basis position is k
IndexBits(n, k) == [q \in 1..n |-> ((k - 1) \div IntPow(2, n - q)) % 2]

(***************************************************************************)
(* The gate library, src/lib/ops.py                                        *)
(***************************************************************************)
\* element-wise sum of two arrays of one shape and denominator
ArrayAdd(a, b) ==
  Array(a.shape,
        [i \in 1..NRows(a) |-> [j \in 1..NCols(a) |->
           CAdd(a.data[i][j], b.data[i][j])]],
        a.den)

\* ops.Identity(n): the identity on n qubits
Identity(n) == Eye(IntPow(2, n))

\* |0><0| and |1><1|
Projector(bit) ==
  Array(<<2, 2>>,
        [i \in 1..2 |-> [j \in 1..2 |->
           IF i = bit + 1 /\ j = bit + 1 THEN COne ELSE CZero]],
        1)

PauliX ==
  Array(<<2, 2>>,
        [i \in 1..2 |-> [j \in 1..2 |-> IF i # j THEN COne ELSE CZero]],
        1)

\* ops.Cnot(idx0, idx1), idx0 < idx1: the controlled-NOT on the qubits
\* idx0 .. idx1, controlled by the first of them and acting on the last
Cnot(idx0, idx1) ==
  LET ifill == Identity(idx1 - idx0 - 1)
  IN  ArrayAdd(NpKron(NpKron(Projector(0), ifill), Identity(1)),
               NpKron(NpKron(Projector(1), ifill), PauliX))

\* ops.OracleUf(n, f): |x, y> -> |x, y XOR f(x)>, f given by its table
OracleUf(n, f) ==
  LET dim == IntPow(2, n)
      image(col) ==
        LET bits == IndexBits(n, col)
            x == SubSeq(bits, 1, n - 1)
        IN  BasisIndex(x \o <<(bits[n] + f[x]) % 2>>)
  IN  Array(<<dim, dim>>,
            [i \in 1..dim |-> [j \in 1..dim |->
               IF i = image(j) THEN COne ELSE CZero]],
            1)

\* the single-qubit Hadamard matrix times sqrt(2)
HadamardBase ==
  Array(<<2, 2>>,
        [i \in 1..2 |-> [j \in 1..2 |->
           IF i = 2 /\ j = 2 THEN <<-1, 0>> ELSE COne]],
        1)

\* ops.Hadamard(n) times sqrt(2)^n
HadamardScaled(n) == PowLoop(HadamardBase, HadamardBase, n - 1)

(***************************************************************************)
(* States, src/lib/state.py.  A state is a 1-D array vec with the squared  *)
(* norm factor norm2: its amplitudes are vec / sqrt(norm2).                *)
(***************************************************************************)
State(vec, norm2) == [vec |-> vec, norm2 |-> norm2]

BasisVector(n, k) ==
  Array(<<IntPow(2, n)>>,
        [i \in 1..1 |-> [j \in 1..IntPow(2, n) |->
           IF j = k THEN COne ELSE CZero]],
        1)

\* state.zeros(n): |0...0>
zeros(n) == State(BasisVector(n, 1), 1)

\* state.ones(n): |1...1>
ones(n) == State(BasisVector(n, IntPow(2, n)), 1)

\* State.__mul__: the Kronecker product of two states
StateKron(a, b) == State(NpKron(a.vec, b.vec), a.norm2 * b.norm2)

\* Operator.__call__: the operator applied to the state
Apply(op, st) == State(MatMul(op, st.vec), st.norm2)

\* ops.Hadamard(n)(st)
ApplyHadamard(n, st) ==
  State(MatMul(HadamardScaled(n), st.vec), st.norm2 * IntPow(2, n))

\* the threshold 0.1 of check_result, as 1 / ProbThresholdInv
ProbThresholdInv == 10

\* psi.prob(*bits) > 0.1
ProbAboveThreshold(st, bits) ==
  ProbThresholdInv * CNorm2(st.vec.data[1][BasisIndex(bits)])
    > st.norm2 * st.vec.den * st.vec.den

(***************************************************************************)
(* src/bernstein.py                                                        *)
(***************************************************************************)
\* check_result: the assertion holds for every configuration above 0.1
check_result(n, cc, st) ==
  IF \A bits \in bitprod(n) :
       ProbAboveThreshold(st, bits) => SubSeq(bits, 1, n - 1) = cc
    THEN Returns(TRUE)
    ELSE Raises("AssertionError: Invalid result")

\* make_c(n), given the random draws rnd it consumes: one per pass of its
\* loop over range(n - 1)
make_c(n, rnd) ==
  [idx \in 1..n |-> IF idx <= n - 1 THEN rnd[idx] ELSE 0]

\* the number of random draws make_c(n) consumes
make_c_draws(n) == IF n >= 1 THEN n - 1 ELSE 0

RECURSIVE make_u_loop_sum(_, _, _, _, _)
\* make_u's loop with the gates added to the running operator, not multiplied
make_u_loop_sum(n, constant_c, idx, op, cnt) ==
  IF idx > n - 2
    THEN IF is_unitary(op).raised # ""
           THEN [raised |-> is_unitary(op).raised, ret |-> op, built |-> cnt]
         ELSE IF is_unitary(op).ret
           THEN [raised |-> "", ret |-> op, built |-> cnt]
         ELSE [raised |-> "AssertionError: Constructed non-unitary operator.",
               ret |-> op, built |-> cnt]
  ELSE IF idx + 1 > Len(constant_c)
    THEN [raised |-> "IndexError", ret |-> op, built |-> cnt]
  ELSE IF constant_c[idx + 1] # 0
    THEN make_u_loop_sum(n, constant_c, idx + 1,
                         ArrayAdd(kron(Identity(idx), Cnot(idx, n - 1)), op),
                         cnt + 2)
  ELSE make_u_loop_sum(n, constant_c, idx + 1, op, cnt)

RECURSIVE make_u_loop(_, _, _, _, _)
\* the loop of make_u from Python index idx on, with the running operator op
\* and the number of gate-library operators constructed so far
make_u_loop(n, constant_c, idx, op, cnt) ==
  IF idx > n - 2
    THEN IF is_unitary(op).raised # ""
           THEN [raised |-> is_unitary(op).raised, ret |-> op, built |-> cnt]
         ELSE IF is_unitary(op).ret
           THEN [raised |-> "", ret |-> op, built |-> cnt]
         ELSE [raised |-> "AssertionError: Constructed non-unitary operator.",
               ret |-> op, built |-> cnt]
  ELSE IF idx + 1 > Len(constant_c)
    THEN [raised |-> "IndexError", ret |-> op, built |-> cnt]
  ELSE IF constant_c[idx + 1] # 0
    THEN make_u_loop(n, constant_c, idx + 1,
                     MatMul(kron(Identity(idx), Cnot(idx, n - 1)), op),
                     cnt + 2)
  ELSE make_u_loop(n, constant_c, idx + 1, op, cnt)

\* make_u with its loop starting at the second bit of the secret
make_u_from_one(n, constant_c) ==
  make_u_loop(n, constant_c, 1, Identity(n), 1)

\* make_u
make_u(n, constant_c) ==
  make_u_loop(n, constant_c, 0, Identity(n), 1)

\* f with "val = c[idx] * v" for "val += c[idx] * v": the last term alone
oracle_f_value_last_term(cc, bit_string) ==
  IF Len(bit_string) = 0 THEN 0
  ELSE (cc[Len(bit_string)] * bit_string[Len(bit_string)]) % 2

\* the function f that make_oracle_f(c) returns, as its table over the bit
\* tuples of length n; f raises IndexError on a tuple longer than c
oracle_f_value(cc, bit_string) ==
  LET term(idx) == cc[idx] * bit_string[idx]
      RECURSIVE val(_)
      val(k) == IF k = 0 THEN 0 ELSE val(k - 1) + term(k)
  IN  val(Len(bit_string)) % 2

make_oracle_f(cc, n) == [x \in bitprod(n) |-> oracle_f_value(cc, x)]

(***************************************************************************)
(* The runs of src/bernstein.py as a state machine.  One action per        *)
(* statement of run_experiment / run_oracle_experiment.                    *)
(***************************************************************************)
\* c = make_c(nbits - 1)
GenerateSecret ==
  /\ pc = "Init"
  /\ \E r \in [1..make_c_draws(nbits - 1) -> Bits] :
       /\ draws' = r
       /\ c' = make_c(nbits - 1, r)
  /\ pc' = "SecretGenerated"
  /\ UNCHANGED <<kind, run, nbits, u, psi, raised, built>>
  /\ UNCHANGED <<tensorVars, heapVars>>

\* u = make_u(nbits, c)
BuildSecretOracle ==
  /\ pc = "SecretGenerated"
  /\ kind \in {"run_experiment", "make_u"}
  /\ LET o == make_u(nbits, c)
     IN  /\ raised' = o.raised
         /\ built' = o.built
         /\ u' = IF o.raised = "" THEN o.ret ELSE None
         /\ pc' = IF o.raised = "" THEN "OracleBuilt" ELSE "Failed"
  /\ UNCHANGED <<kind, run, nbits, c, draws, psi>>
  /\ UNCHANGED <<tensorVars, heapVars>>

\* f = make_oracle_f(c); u = ops.OracleUf(nbits, f)
BuildFunctionOracle ==
  /\ pc = "SecretGenerated"
  /\ kind = "run_oracle_experiment"
  /\ u' = OracleUf(nbits, make_oracle_f(c, nbits - 1))
  /\ pc' = "OracleBuilt"
  /\ UNCHANGED <<kind, run, nbits, c, draws, psi, raised, built>>
  /\ UNCHANGED <<tensorVars, heapVars>>

\* psi = state.zeros(nbits - 1) * state.ones(1)
PrepareState ==
  /\ pc = "OracleBuilt"
  /\ kind \in {"run_experiment", "run_oracle_experiment"}
  /\ psi' = StateKron(zeros(nbits - 1), ones(1))
  /\ pc' = "StatePrepared"
  /\ UNCHANGED <<kind, run, nbits, c, draws, u, raised, built>>
  /\ UNCHANGED <<tensorVars, heapVars>>

\* psi = ops.Hadamard(nbits)(psi)
ApplyHadamard1 ==
  /\ pc = "StatePrepared"
  /\ psi' = ApplyHadamard(nbits, psi)
  /\ pc' = "HadamardApplied1"
  /\ UNCHANGED <<kind, run, nbits, c, draws, u, raised, built>>
  /\ UNCHANGED <<tensorVars, heapVars>>

\* run_experiment without its statement psi = u(psi)
ApplyOracleSkipped ==
  /\ pc = "HadamardApplied1"
  /\ psi' = ApplyHadamard(nbits, psi)
  /\ pc' = "HadamardApplied2"
  /\ UNCHANGED <<kind, run, nbits, c, draws, u, raised, built>>
  /\ UNCHANGED <<tensorVars, heapVars>>

\* psi = u(psi)
ApplyOracle ==
  /\ pc = "HadamardApplied1"
  /\ psi' = Apply(u, psi)
  /\ pc' = "OracleApplied"
  /\ UNCHANGED <<kind, run, nbits, c, draws, u, raised, built>>
  /\ UNCHANGED <<tensorVars, heapVars>>

\* psi = ops.Hadamard(nbits)(psi)
ApplyHadamard2 ==
  /\ pc = "OracleApplied"
  /\ psi' = ApplyHadamard(nbits, psi)
  /\ pc' = "HadamardApplied2"
  /\ UNCHANGED <<kind, run, nbits, c, draws, u, raised, built>>
  /\ UNCHANGED <<tensorVars, heapVars>>

\* check_result(nbits, c, psi)
CheckResult ==
  /\ pc = "HadamardApplied2"
  /\ LET o == check_result(nbits, c, psi)
     IN  /\ raised' = o.raised
         /\ pc' = IF o.raised = "" THEN "Verified" ELSE "Failed"
  /\ UNCHANGED <<kind, run, nbits, c, draws, u, psi, built>>
  /\ UNCHANGED <<tensorVars, heapVars>>

\* main: the next call of the loop, run_experiment and run_oracle_experiment
\* in turn; an exception of a run ends main
NextRun ==
  /\ pc = "Verified"
  /\ run + 1 < 2 * Runs
  /\ run' = run + 1
  /\ kind' = IF kind = "run_experiment" THEN "run_oracle_experiment"
             ELSE "run_experiment"
  /\ pc' = "Init"
  /\ c' = <<>>
  /\ draws' = <<>>
  /\ u' = None
  /\ psi' = None
  /\ built' = 0
  /\ UNCHANGED <<nbits, raised>>
  /\ UNCHANGED <<tensorVars, heapVars>>

\* main, on nbits qubits
Init ==
  /\ pc = "Init"
  /\ kind = "run_experiment"
  /\ run = 0
  /\ nbits \in 2..MaxBits
  /\ c = <<>>
  /\ draws = <<>>
  /\ u = None
  /\ psi = None
  /\ raised = ""
  /\ built = 0
  /\ TensorIdle
  /\ HeapIdle

Next ==
  \/ GenerateSecret
  \/ BuildSecretOracle
  \/ BuildFunctionOracle
  \/ PrepareState
  \/ ApplyHadamard1
  \/ ApplyOracle
  \/ ApplyHadamard2
  \/ CheckResult
  \/ NextRun

Spec == Init /\ [][Next]_vars

(***************************************************************************)
(* The same functions called with a secret the caller supplies: every bit  *)
(* tuple of length nbits - 1 for the two experiments, and every bit tuple  *)
(* of length 0 .. nbits for a direct call of make_u.                       *)
(***************************************************************************)
SuppliedSecrets(k, n) ==
  IF k = "make_u" THEN UNION {bitprod(len) : len \in 0..n} ELSE bitprod(n - 1)

InitBV ==
  /\ pc = "SecretGenerated"
  /\ kind \in {"run_experiment", "run_oracle_experiment", "make_u"}
  /\ run = 0
  /\ nbits \in 2..MaxBits
  /\ c \in SuppliedSecrets(kind, nbits)
  /\ draws = <<>>
  /\ u = None
  /\ psi = None
  /\ raised = ""
  /\ built = 0
  /\ TensorIdle
  /\ HeapIdle

NextBV ==
  \/ BuildSecretOracle
  \/ BuildFunctionOracle
  \/ PrepareState
  \/ ApplyHadamard1
  \/ ApplyOracle
  \/ ApplyHadamard2
  \/ CheckResult

SpecBV == InitBV /\ [][NextBV]_vars

(***************************************************************************)
(* Properties of the runs.                                                 *)
(***************************************************************************)
\* psi.prob(*bits) < 0.1
ProbBelowThreshold(st, bits) ==
  ProbThresholdInv * CNorm2(st.vec.data[1][BasisIndex(bits)])
    < st.norm2 * st.vec.den * st.vec.den

\* the configurations of the final state whose probability exceeds 0.1
Peaks == {bits \in bitprod(nbits) : ProbAboveThreshold(psi, bits)}

\* C1: for every secret c of nbits - 1 bits, the state run_experiment ends
\* with has exactly one configuration of probability above 0.1, its first
\* nbits - 1 bits are c, every other configuration is below 0.1, and the
\* assertion of check_result does not fail.
C1_UniquePeakAtSecret ==
  kind = "run_experiment" =>
    /\ pc # "Failed"
    /\ pc \in {"HadamardApplied2", "Verified"} =>
         /\ Cardinality(Peaks) = 1
         /\ \A bits \in Peaks : SubSeq(bits, 1, nbits - 1) = c
         /\ \A bits \in bitprod(nbits) \ Peaks : ProbBelowThreshold(psi, bits)

C1_Witness ==
  /\ kind = "run_experiment"
  /\ pc = "Verified"
  /\ nbits = 3
  /\ c = <<1, 1>>
  /\ Peaks = {<<1, 1, 1>>}

\* C2: for every secret of nbits - 1 bits make_u returns, its assertion
\* 'Constructed non-unitary operator.' does not fail, and the operator it
\* returns times its conjugate transpose is the identity.
C2_OracleIsUnitary ==
  (kind \in {"run_experiment", "make_u"} /\ pc # "SecretGenerated"
     /\ Len(c) = nbits - 1) =>
    /\ raised # "AssertionError: Constructed non-unitary operator."
    /\ u # None
    /\ MatMul(Conj(Transpose(u)), u) = Eye(IntPow(2, nbits))

C2_Witness ==
  /\ kind = "make_u"
  /\ pc = "OracleBuilt"
  /\ nbits = 3
  /\ c = <<1, 1>>
  /\ is_unitary(u) = Returns(TRUE)

\* the dot product of two bit tuples modulo 2
DotMod2(a, b) == Cardinality({i \in 1..Len(b) : a[i] = 1 /\ b[i] = 1}) % 2

\* |x, y> -> |x, y XOR (secret . x mod 2)> on a basis position
ExpectedImage(n, secret, bits) ==
  BasisIndex(SubSeq(bits, 1, n - 1)
               \o <<(bits[n] + DotMod2(secret, SubSeq(bits, 1, n - 1))) % 2>>)

\* what applying op to the basis state |bits> gives
ImageOf(op, n, bits) == MatMul(op, BasisVector(n, BasisIndex(bits)))

\* C3: for a secret c of nbits - 1 bits, the operator of make_u and the
\* function oracle of make_oracle_f(c) both map every basis state |x, y> to
\* |x, y XOR (c.x mod 2)>, so the oracle a run built acts as the other
\* construction does.
C3_OraclesAgree ==
  (pc \notin {"SecretGenerated", "Failed"} /\ Len(c) = nbits - 1) =>
    LET secret_oracle == make_u(nbits, c).ret
        function_oracle == OracleUf(nbits, make_oracle_f(c, nbits - 1))
    IN  \A bits \in bitprod(nbits) :
          /\ ImageOf(u, nbits, bits)
               = BasisVector(nbits, ExpectedImage(nbits, c, bits))
          /\ ImageOf(secret_oracle, nbits, bits)
               = ImageOf(function_oracle, nbits, bits)

C3_Witness ==
  /\ kind = "run_oracle_experiment"
  /\ pc = "OracleBuilt"
  /\ nbits = 3
  /\ c = <<1, 1>>
  /\ ImageOf(u, 3, <<1, 1, 0>>) = BasisVector(3, BasisIndex(<<1, 1, 0>>))
  /\ ImageOf(u, 3, <<1, 0, 0>>) = BasisVector(3, BasisIndex(<<1, 0, 1>>))

\* C4: every position of the secret make_c returns was drawn at random.
C4_EveryPositionDrawn ==
  pc # "Init" => (Len(draws) = Len(c) /\ \A i \in 1..Len(c) : c[i] = draws[i])

\* C5: make_u rejects a secret whose length is not nbits - 1, before it has
\* constructed any operator.
C5_WrongLengthRejected ==
  (kind = "make_u" /\ pc # "SecretGenerated" /\ Len(c) # nbits - 1) =>
    (pc = "Failed" /\ built = 0)

\* the steps of a run, in order
StepOrder ==
  <<"Init", "SecretGenerated", "OracleBuilt", "StatePrepared",
    "HadamardApplied1", "OracleApplied", "HadamardApplied2", "Verified">>

\* C6: a run takes its steps in the order of StepOrder, one at a time; only
\* the two asserting steps can fail, a failed run takes no further step, and
\* a new run starts only after the verification of the one before.
C6_StepsInOrder ==
  [][/\ pc = "Failed" => UNCHANGED vars
     /\ run' = run =>
          \/ \E i \in 1..(Len(StepOrder) - 1) :
               pc = StepOrder[i] /\ pc' = StepOrder[i + 1]
          \/ /\ pc \in {"SecretGenerated", "HadamardApplied2"}
             /\ pc' = "Failed"
             /\ raised' # ""
     /\ run' # run => (pc = "Verified" /\ pc' = "Init" /\ run' = run + 1)]_vars

C6_Witness ==
  /\ pc = "Verified"
  /\ run = 1
  /\ kind = "run_oracle_experiment"
  /\ psi # None

(***************************************************************************)
(* The methods of Tensor called on every small Tensor.                     *)
(***************************************************************************)
\* the largest number of elements of a Tensor a predicate is called on
MaxElems == 6

\* the largest number of elements of a Tensor pow is called on
MaxPowElems == 4

\* the largest exponent of pow
MaxPow == 3

\* the element numerators: 0, 1 and j
Elements == {CZero, COne, CImag}

\* the denominators: elements are 0, 1, j or 0, 1/2, j/2
Denominators == {1, 2}

\* the 1-D and 2-D shapes of at most size elements
Shapes(size) ==
  {<<m>> : m \in 1..size}
    \cup {sh \in (1..size) \X (1..size) : sh[1] * sh[2] <= size}

\* the Tensors of at most size elements
Tensors(size) ==
  UNION {{Array(sh, d, dn) : d \in [1..Rows(sh) -> [1..Cols(sh) -> Elements]]}
           : sh \in Shapes(size), dn \in Denominators}

\* a.is_hermitian()
CallIsHermitian ==
  /\ top = "none"
  /\ tin # None
  /\ top' = "is_hermitian"
  /\ tout' = Returns(is_hermitian(tin))
  /\ UNCHANGED <<tin, targ>>
  /\ UNCHANGED <<runVars, heapVars>>

\* a.is_unitary()
CallIsUnitary ==
  /\ top = "none"
  /\ tin # None
  /\ top' = "is_unitary"
  /\ tout' = is_unitary(tin)
  /\ UNCHANGED <<tin, targ>>
  /\ UNCHANGED <<runVars, heapVars>>

\* a.is_density()
CallIsDensity ==
  /\ top = "none"
  /\ tin # None
  /\ top' = "is_density"
  /\ tout' = Returns(is_density(tin))
  /\ UNCHANGED <<tin, targ>>
  /\ UNCHANGED <<runVars, heapVars>>

\* a.pow(k)
CallPow ==
  /\ top = "none"
  /\ tin # None
  /\ \E k \in 0..MaxPow :
       /\ targ' = k
       /\ tout' = Returns(pow(tin, k))
  /\ top' = "pow"
  /\ UNCHANGED tin
  /\ UNCHANGED <<runVars, heapVars>>

InitTensor ==
  /\ tin \in Tensors(MaxElems)
  /\ top = "none"
  /\ targ = 0
  /\ tout = None
  /\ RunIdle
  /\ HeapIdle

NextTensor ==
  \/ CallIsHermitian
  \/ CallIsUnitary
  \/ CallIsDensity

SpecTensor == InitTensor /\ [][NextTensor]_vars

InitPow ==
  /\ tin \in Tensors(MaxPowElems)
  /\ top = "none"
  /\ targ = 0
  /\ tout = None
  /\ RunIdle
  /\ HeapIdle

NextPow == CallPow

SpecPow == InitPow /\ [][NextPow]_vars

(***************************************************************************)
(* Properties of the methods.                                              *)
(***************************************************************************)
Abs(x) == IF x < 0 THEN -x ELSE x

\* the trace of a is within 1e-6 of 1
TraceNearOne(a) ==
  /\ AtolInv * Abs(Trace(a)[1] - a.den) <= a.den
  /\ AtolInv * Abs(Trace(a)[2]) <= a.den

\* C7: is_density returns true only for a Hermitian matrix whose trace is
\* within the tolerance 1e-6 of 1.
C7_DensityHasUnitTrace ==
  (top = "is_density" /\ tout.ret) => (is_hermitian(tin) /\ TraceNearOne(tin))

\* the k digits of x in base b, most significant first, each plus one
DigitsOf(x, b, k) == [d \in 1..k |-> ((x \div IntPow(b, k - d)) % b) + 1]

RECURSIVE CProduct(_, _)
\* the product of f[1] .. f[k]
CProduct(f, k) == IF k = 0 THEN COne ELSE CMul(CProduct(f, k - 1), f[k])

\* the elements of the Kronecker product of k copies of a: element [i][j] is
\* the product of the elements of a that the base-rows digits of i - 1 and
\* the base-columns digits of j - 1 select
KronPowerData(a, k) ==
  LET rd == [i \in 1..IntPow(NRows(a), k) |-> DigitsOf(i - 1, NRows(a), k)]
      cd == [j \in 1..IntPow(NCols(a), k) |-> DigitsOf(j - 1, NCols(a), k)]
  IN  [i \in 1..IntPow(NRows(a), k) |-> [j \in 1..IntPow(NCols(a), k) |->
         CProduct([d \in 1..k |-> a.data[rd[i][d]][cd[j][d]]], k)]]

\* C8: pow(a, 0) is the float 1.0; for k >= 1, pow(a, k) is a Tensor, each
\* axis the k-th power of a's, whose elements are those of the Kronecker
\* product of k copies of a; pow(a, 1) is a.
C8_PowIsKroneckerPower ==
  top = "pow" =>
    /\ tout.raised = ""
    /\ targ = 0 => tout.ret = PyFloat(1)
    /\ targ >= 1 =>
         LET r == tout.ret.value
         IN  /\ tout.ret.type = "Tensor"
             /\ Len(r.shape) = Len(tin.shape)
             /\ \A ax \in 1..Len(r.shape) :
                  r.shape[ax] = IntPow(tin.shape[ax], targ)
             /\ r.den = IntPow(tin.den, targ)
             /\ r.data = KronPowerData(tin, targ)
    /\ targ = 1 => tout.ret.value = tin

C8_Witness ==
  /\ top = "pow"
  /\ targ = 3
  /\ tin = Array(<<2, 2>>, <<<<COne, CImag>>, <<CZero, COne>>>>, 2)
  /\ tout.ret.value.shape = <<8, 8>>
  /\ tout.ret.value.data[1][8] = <<0, -1>>
  /\ tout.ret.value.den = 8

\* C9: is_hermitian, is_unitary and is_density return a truth value on every
\* 1-D or 2-D Tensor and never raise; on an input that is not a square matrix
\* they return false.
C9_PredicatesNeverRaise ==
  top \in {"is_hermitian", "is_unitary", "is_density"} =>
    /\ tout.raised = ""
    /\ (Len(tin.shape) # 2 \/ NRows(tin) # NCols(tin)) => tout.ret = FALSE

(***************************************************************************)
(* Tensor objects and the buffers they view.  numpy.asarray(x, dtype)      *)
(* returns x itself when x is an array of that dtype, and ndarray.view     *)
(* makes a new array object on the same buffer; numpy.kron allocates the   *)
(* buffer of its result.                                                   *)
(***************************************************************************)
\* the largest number of Tensor objects
MaxObjs == 3

\* the largest number of element writes
MaxWrites == 1

\* the largest number of elements of a buffer
MaxBufLen == 4

\* a Tensor object: the buffer it views, the operation that returned it, the
\* objects that operation took and, for pow, its exponent
Obj(buf, op, args, k) == [buf |-> buf, op |-> op, args |-> args, k |-> k]

Store(h, o) == [heap |-> h, objs |-> o]

NElems(a) == NRows(a) * NCols(a)

\* the value of object t
ValueOf(st, t) == st.heap[st.objs[t].buf]

\* Tensor(input_array) on a Python list: asarray allocates the array
TensorOfList(st, v) ==
  Store(Append(st.heap, v),
        Append(st.objs, Obj(Len(st.heap) + 1, "list", <<>>, 0)))

\* Tensor(a) on a Tensor: asarray returns a, and the view shares its buffer
TensorOfTensor(st, a) ==
  Store(st.heap, Append(st.objs, Obj(st.objs[a].buf, "Tensor", <<a>>, 0)))

\* a.kron(b): a view of the array numpy.kron allocated
TensorKron(st, a, b) ==
  Store(Append(st.heap, kron(ValueOf(st, a), ValueOf(st, b))),
        Append(st.objs, Obj(Len(st.heap) + 1, "kron", <<a, b>>, 0)))

\* a.pow(k), k >= 1, returning self.__class__(self) whatever k is
TensorPowOfSelf(st, a, k) ==
  Store(st.heap, Append(st.objs, Obj(st.objs[a].buf, "pow", <<a>>, k)))

\* a.pow(k), k >= 1: with k = 1 the loop does not run and t is self, so the
\* result is Tensor(self); otherwise t is the array of the last numpy.kron
TensorPow(st, a, k) ==
  IF k = 1
    THEN Store(st.heap, Append(st.objs, Obj(st.objs[a].buf, "pow", <<a>>, k)))
    ELSE Store(Append(st.heap, pow(ValueOf(st, a), k).value),
               Append(st.objs, Obj(Len(st.heap) + 1, "pow", <<a>>, k)))

\* the arrays Tensors are first made of
HeapInputs ==
  {Array(<<1>>, <<<<COne>>>>, 1), Array(<<2>>, <<<<COne, CImag>>>>, 1)}

Created == [op |-> "new", obj |-> Len(objs) + 1]

HeapNewFromList ==
  /\ Len(objs) < MaxObjs
  /\ \E v \in HeapInputs :
       LET st == TensorOfList(Store(heap, objs), v)
       IN  heap' = st.heap /\ objs' = st.objs
  /\ hlast' = Created
  /\ UNCHANGED hwrites
  /\ UNCHANGED <<runVars, tensorVars>>

HeapNewFromTensor ==
  /\ Len(objs) < MaxObjs
  /\ \E a \in 1..Len(objs) :
       LET st == TensorOfTensor(Store(heap, objs), a)
       IN  heap' = st.heap /\ objs' = st.objs
  /\ hlast' = Created
  /\ UNCHANGED hwrites
  /\ UNCHANGED <<runVars, tensorVars>>

HeapKron ==
  /\ Len(objs) < MaxObjs
  /\ \E a \in 1..Len(objs) : \E b \in 1..Len(objs) :
       /\ NElems(ValueOf(Store(heap, objs), a))
            * NElems(ValueOf(Store(heap, objs), b)) <= MaxBufLen
       /\ LET st == TensorKron(Store(heap, objs), a, b)
          IN  heap' = st.heap /\ objs' = st.objs
  /\ hlast' = Created
  /\ UNCHANGED hwrites
  /\ UNCHANGED <<runVars, tensorVars>>

HeapPow ==
  /\ Len(objs) < MaxObjs
  /\ \E a \in 1..Len(objs) : \E k \in 1..MaxPow :
       /\ IntPow(NElems(ValueOf(Store(heap, objs), a)), k) <= MaxBufLen
       /\ LET st == TensorPow(Store(heap, objs), a, k)
          IN  heap' = st.heap /\ objs' = st.objs
  /\ hlast' = Created
  /\ UNCHANGED hwrites
  /\ UNCHANGED <<runVars, tensorVars>>

\* t[j] = v, an element assignment through object t
HeapWrite ==
  /\ hwrites < MaxWrites
  /\ \E t \in 1..Len(objs) :
       \E j \in 1..NCols(heap[objs[t].buf]) :
         \E v \in {CZero, COne} \ {heap[objs[t].buf].data[1][j]} :
           /\ heap' = [heap EXCEPT ![objs[t].buf].data[1][j] = v]
           /\ hlast' = [op |-> "write", obj |-> t]
  /\ hwrites' = hwrites + 1
  /\ UNCHANGED objs
  /\ UNCHANGED <<runVars, tensorVars>>

InitHeap ==
  /\ HeapIdle
  /\ RunIdle
  /\ TensorIdle

NextHeap ==
  \/ HeapNewFromList
  \/ HeapNewFromTensor
  \/ HeapKron
  \/ HeapPow
  \/ HeapWrite

SpecHeap == InitHeap /\ [][NextHeap]_vars

(***************************************************************************)
(* Properties of the buffers.                                              *)
(***************************************************************************)
\* the pairs <<t, a>>: object t was returned by Tensor(a), by a kron with
\* operand a, or by a.pow(k)
OperandPairs ==
  {<<p[1], objs[p[1]].args[p[2]]>> :
     p \in {q \in (1..Len(objs)) \X (1..2) : q[2] <= Len(objs[q[1]].args)}}

\* the step is an element write through object w
WrittenThrough(w) ==
  /\ objs' = objs
  /\ hwrites' = hwrites + 1
  /\ hlast' = [op |-> "write", obj |-> w]

\* the step leaves the value of object t as it was
ValueKept(t) == heap'[objs[t].buf] = heap[objs[t].buf]

\* C10: a Tensor returned by Tensor(a), by kron or by pow(a, k), k >= 1,
\* shares its buffer with no operand: a write through the result leaves each
\* operand as it was, and a write through an operand leaves the result as it
\* was.
C10_ResultsOwnTheirBuffers ==
  [][\A p \in OperandPairs' :
       /\ objs'[p[1]].buf # objs'[p[2]].buf
       /\ WrittenThrough(p[1]) => ValueKept(p[2])
       /\ WrittenThrough(p[2]) => ValueKept(p[1])]_vars

\* object o is a view: it was returned by Tensor(a) or by a.pow(1)
IsView(o) == o.op = "Tensor" \/ (o.op = "pow" /\ o.k = 1)

\* C10, amended: a Tensor returned by kron or by pow(a, k), k >= 2, shares
\* its buffer with no operand, and a write through it or through an operand
\* leaves the other as it was; a Tensor returned by Tensor(a) or by pow(a, 1)
\* views the buffer of a, and a write through either changes both.
C10_FreshUnlessView ==
  [][\A p \in OperandPairs' :
       IF IsView(objs'[p[1]])
         THEN /\ objs'[p[1]].buf = objs'[p[2]].buf
              /\ WrittenThrough(p[1]) => ~ValueKept(p[2])
              /\ WrittenThrough(p[2]) => ~ValueKept(p[1])
         ELSE /\ objs'[p[1]].buf # objs'[p[2]].buf
              /\ WrittenThrough(p[1]) => ValueKept(p[2])
              /\ WrittenThrough(p[2]) => ValueKept(p[1])]_vars

\* an operand of a kron and of a pow(., 2) result has been written through,
\* and a view of it has followed the write while the two results have not
C10_Witness ==
  /\ Len(objs) = 3
  /\ hlast = [op |-> "write", obj |-> 1]
  /\ objs[2].op = "pow" /\ objs[2].k = 2 /\ objs[2].args = <<1>>
  /\ objs[3].op = "Tensor" /\ objs[3].args = <<1>>
  /\ heap[objs[3].buf] = heap[objs[1].buf]
  /\ heap[objs[2].buf] # pow(heap[objs[1].buf], 2).value

====
